---- MODULE Spec2Model ----
(***************************************************************************)
(* Model of the register read engine of energymeter.py: selector dispatch  *)
(* of read(), the two window planners (_batch_read, _split_ranges), the    *)
(* per-window transport exchange and the value decoding (_convert_value)   *)
(* of the serial (minimalmodbus / tinysbus) and TCP meter classes.         *)
(*                                                                         *)
(* Integers wider than 31 bits are kept as big-endian byte strings, so the *)
(* 32- and 64-bit registers keep their width.  IEEE-754 rounding of the    *)
(* final quotient is not modelled: a decoded number is the exact pair      *)
(* (integer, decimals) standing for integer / 10^decimals.                 *)
(***************************************************************************)
EXTENDS Integers, Sequences, FiniteSets, TLC

VARIABLES
    cls,        \* class of the meter object
    REGS,       \* self.REGS, the register catalog, in declaration order
    device,     \* connection attribute: "unset", "none" or "open"
    pc,         \* position of the current read() call: "idle", "exchange", "done"
    regnames,   \* argument of the current read() call
    registers,  \* the register list read() resolved and handed on
    plan,       \* windows still to be requested, each a list of registers
    sent,       \* log of the transport exchanges performed by this call
    results,    \* the dict accumulated by the batched read
    outcome,    \* how the call ended: a returned value or a raised error
    diag,       \* what the call printed
    fault,      \* TRUE once the serial driver raised during this call
    cin,        \* argument tuple of a direct _convert_value call
    cout,       \* its result
    peer,       \* the catalog a second object of the same class reads
    conns,      \* the TCP connections opened so far, with their byte streams
    link,       \* self.device / self.writer of a TCP object: which connection
    task        \* the request in progress of each caller of a TCP object

vars == <<cls, REGS, device, pc, regnames, registers, plan, sent, results,
          outcome, diag, fault, cin, cout, peer, conns, link, task>>

\* the byte-level state of a TCP object
wirevars == <<conns, link, task>>

-----------------------------------------------------------------------------
(* Bounds of the model.                                                    *)

\* largest number of registers in a catalog
MaxRegs == 3
\* longest list selector
MaxSel == 2

-----------------------------------------------------------------------------
(* Integers as byte strings.                                               *)

IntV(neg, mag) == [neg |-> neg, mag |-> mag]

RECURSIVE Strip(_)
Strip(bs) ==
    IF bs = <<>> THEN <<>>
    ELSE IF bs[1] = 0 THEN Strip(Tail(bs)) ELSE bs

Front(s) == SubSeq(s, 1, Len(s) - 1)

RECURSIVE AddOne(_)
AddOne(bs) ==
    IF bs = <<>> THEN <<>>
    ELSE IF bs[Len(bs)] = 255 THEN Append(AddOne(Front(bs)), 0)
    ELSE Append(Front(bs), bs[Len(bs)] + 1)

Invert(bs) == [i \in 1..Len(bs) |-> 255 - bs[i]]

AllOnes(k) == [i \in 1..k |-> 255]
MaxPos(k) == <<127>> \o AllOnes(k - 1)

\* struct.pack('>H' * n, *values): each 16-bit word becomes two bytes, high first
RECURSIVE PackH(_)
PackH(values) ==
    IF values = <<>> THEN <<>>
    ELSE <<values[1] \div 256, values[1] % 256>> \o PackH(Tail(values))

\* struct.unpack of one big-endian integer of Len(bs) bytes
\* (format h/H, l/L, q/Q according to signed)
Unpack(bs, signed) ==
    IF signed /\ bs[1] >= 128
    THEN IntV(TRUE, Strip(AddOne(Invert(bs))))
    ELSE IntV(FALSE, Strip(bs))

-----------------------------------------------------------------------------
(* Values a read can produce.                                              *)

NoneVal == [t |-> "None"]
Num(v, dec) == [t |-> "num", neg |-> v.neg, mag |-> v.mag, dec |-> dec]
FloatVal(bs) == [t |-> "float", bits |-> bs]
NotFoundStr == [t |-> "str", s |-> "Register not found on device."]
One == [t |-> "num", neg |-> FALSE, mag |-> <<1>>, dec |-> 0]
IsZero(v) == v.t = "num" /\ v.mag = <<>>

Returned(v) == [kind |-> "return", val |-> v]
ReturnedDict == [kind |-> "dict"]
Raised(e) == [kind |-> "raise", err |-> e]
Pending == [kind |-> "pending"]

-----------------------------------------------------------------------------
(* Class constants.                                                        *)

RTUClasses == {"ABBMeter", "MEM001"}
SyncTCPClasses == {"SMAMeter", "MulticubeMeter"}
AsyncClasses == {"AsyncModbusTCPMeter"}
TCPClasses == SyncTCPClasses \cup AsyncClasses
Classes == RTUClasses \cup {"SaiaMeter"} \cup TCPClasses

\* a sentinel list that keeps only the all-ones values
ABB_NULLS_mut == {IntV(FALSE, AllOnes(k)) : k \in {8, 4, 2}}

\* ABBMeter.NULLS: 2^n - 1 for n in 64, 63, 32, 31, 16, 15
ABB_NULLS == {IntV(FALSE, AllOnes(k)) : k \in {8, 4, 2}}
                 \cup {IntV(FALSE, MaxPos(k)) : k \in {8, 4, 2}}

TCP_NULLS == {IntV(FALSE, <<255, 255>>), IntV(FALSE, <<127, 255>>),
              IntV(FALSE, <<128, 0>>), IntV(TRUE, <<128, 0>>)}

\* the NULLS attribute each class configures
NULLS(c) ==
    CASE c = "ABBMeter" -> ABB_NULLS
      [] c = "MEM001" -> {}
      [] c = "SaiaMeter" -> {}
      [] c \in SyncTCPClasses -> TCP_NULLS
      [] c \in AsyncClasses -> ABB_NULLS

REG_OFFSET(c) == IF c = "SMAMeter" THEN 1 ELSE 0

RTU_BATCH == 125
SAIA_BATCH == 10

-----------------------------------------------------------------------------
(* _convert_value                                                          *)

\* ModbusRTUMeter._convert_value tests membership in ABBMeter.NULLS,
\* whatever the class of self
RTUNullCheck(c, value) == value \in ABB_NULLS

RTUConvert(c, values, signed, number_of_decimals, is_float) ==
    IF is_float = TRUE /\ Len(values) \in {2, 4}
    THEN Returned(FloatVal(PackH(values)))
    ELSE IF Len(values) \notin {1, 2, 4}
    THEN Raised("struct.error")
    ELSE LET value == Unpack(PackH(values), signed)
         IN  IF RTUNullCheck(c, value)
             THEN Returned(NoneVal)
             ELSE Returned(Num(value, number_of_decimals))

\* whether the format chosen by ModbusTCPMeter._convert_value for n bytes
\* unpacks n bytes
TCPFormatOk(n, is_float) ==
    IF is_float = TRUE THEN n = 4 ELSE n \in {1, 2, 4}

TCPConvert(c, values, signed, decimals, is_float) ==
    IF ~TCPFormatOk(Len(values), is_float)
    THEN Raised(IF Len(values) = 0 /\ is_float # TRUE
                THEN "IndexError" ELSE "struct.error")
    ELSE IF is_float = TRUE
    THEN Returned(FloatVal(values))
    ELSE LET value == Unpack(values, signed)
         IN  IF value \in NULLS(c)
             THEN Returned(NoneVal)
             ELSE Returned(Num(value, decimals))

\* SaiaMeter._convert_value: each register is one 32-bit value, written
\* here as its two 16-bit halves; no null sentinels
SaiaConvert(values, signed, number_of_decimals) ==
    IF Len(values) \notin {1, 2}
    THEN Raised("struct.error")
    ELSE LET bytestring ==
                 IF Len(values) = 1 THEN PackH(values[1])
                 ELSE PackH(values[1]) \o PackH(values[2])
         IN  Returned(Num(Unpack(bytestring, signed), number_of_decimals))

-----------------------------------------------------------------------------
(* Register catalogs.                                                      *)

Reg(n, s, l, sg, d, f) ==
    [name |-> n, start |-> s, length |-> l, signed |-> sg,
     decimals |-> d, is_float |-> f]

\* the registers a catalog of each class is made of (names, signedness and
\* decimals as in the shipped tables; addresses chosen so that both sides
\* of every planner test occur)
BaseRegs(c) ==
    CASE c = "ABBMeter" ->
           {Reg("voltage_l1_n", 10, 2, FALSE, 1, FALSE),
            Reg("active_power_total", 14, 2, TRUE, 2, FALSE),
            Reg("active_import", 131, 4, TRUE, 2, FALSE),
            Reg("power_factor_total", 136, 1, TRUE, 3, FALSE)}
      [] c = "MEM001" ->
           {Reg("voltage_l1_n", 10, 2, FALSE, 0, TRUE),
            Reg("active_power_total", 14, 2, TRUE, 0, TRUE),
            Reg("active_import", 131, 4, TRUE, 2, FALSE),
            Reg("power_factor_total", 136, 1, FALSE, 0, FALSE)}
      [] c = "SaiaMeter" ->
           {Reg("voltage_l1_n", 0, 1, FALSE, 0, FALSE),
            Reg("active_power_total", 8, 2, TRUE, 2, FALSE),
            Reg("active_import", 11, 2, FALSE, 2, FALSE),
            Reg("power_factor_total", 14, 1, TRUE, 2, FALSE)}
      [] c \in TCPClasses ->
           {Reg("voltage_l1_n", 40188, 1, FALSE, 1, FALSE),
            Reg("active_power_total", 40189, 1, TRUE, -1, FALSE),
            Reg("active_import", 40191, 2, FALSE, 3, FALSE),
            Reg("power_factor_total", 40208, 1, TRUE, 3, FALSE)}

NamesOf(regs) == {regs[i].name : i \in 1..Len(regs)}

\* catalogs: the base registers of the class, any subset up to MaxRegs of
\* them, in any declaration order
Catalogs(c) ==
    UNION {{s \in [1..n -> BaseRegs(c)] :
                \A i, j \in 1..n : i # j => s[i] # s[j]} : n \in 0..MaxRegs}

CatalogNames == {"voltage_l1_n", "active_power_total", "active_import",
                 "power_factor_total"}

SelNames == CatalogNames \cup {"no_such_register"}

SelNone == [k |-> "None"]
SelStr(n) == [k |-> "str", name |-> n]
SelList(ns) == [k |-> "list", names |-> ns]
SelTuple(ns) == [k |-> "tuple", names |-> ns]
SelInt == [k |-> "int"]

NameOrder == <<"no_such_register", "voltage_l1_n", "active_power_total",
               "active_import", "power_factor_total">>

Rank(n) == CHOOSE i \in 1..Len(NameOrder) : NameOrder[i] = n

\* the name lists passed to read(): up to MaxSel names, repetitions
\* included, one list for each multiset of names
NameLists ==
    UNION {{ns \in [1..n -> SelNames] :
                \A i \in 1..(n - 1) : Rank(ns[i]) <= Rank(ns[i + 1])} : n \in 0..MaxSel}

\* the arguments read() is called with
Selectors ==
    {SelNone, SelInt}
        \cup {SelStr(n) : n \in SelNames}
        \cup {SelList(ns) : ns \in NameLists}
        \cup {SelTuple(<<n>>) : n \in SelNames}

-----------------------------------------------------------------------------
(* List helpers of read().                                                 *)

InSeq(x, s) == \E i \in 1..Len(s) : s[i] = x

\* [register for register in self.REGS if register['name'] in regnames]
FilterIn(regs, names) == SelectSeq(regs, LAMBDA r : InSeq(r.name, names))

\* [register for register in self.REGS if register['name'] == regnames]
FilterEq(regs, n) == SelectSeq(regs, LAMBDA r : r.name = n)

\* regs_not_available
NotAvailable(regs, names) ==
    SelectSeq(names, LAMBDA n : n \notin NamesOf(regs))

RECURSIVE InsertByStart(_, _)
InsertByStart(r, s) ==
    IF s = <<>> THEN <<r>>
    ELSE IF r.start < s[1].start THEN <<r>> \o s
    ELSE <<s[1]>> \o InsertByStart(r, Tail(s))

\* registers.sort(key=lambda reg: reg['start']), a stable sort
RECURSIVE SortByStart(_)
SortByStart(s) ==
    IF s = <<>> THEN <<>>
    ELSE InsertByStart(s[Len(s)], SortByStart(Front(s)))

IsSorted(s) == \A i \in 1..(Len(s) - 1) : s[i].start <= s[i + 1].start

-----------------------------------------------------------------------------
(* Window planners.                                                        *)

Cap(c) == IF c = "SaiaMeter" THEN SAIA_BATCH ELSE RTU_BATCH

\* a test that closes the window one register early
Fits_mut(register, start_reg, cap) ==
    register.start + register.length - start_reg < cap

\* the test of _batch_read: the register still fits the current window
Fits(register, start_reg, cap) ==
    register.start + register.length - start_reg <= cap

RECURSIVE BatchLoop(_, _, _, _, _)
BatchLoop(regs, i, start_reg, batch, cap) ==
    IF i > Len(regs) THEN <<batch>>
    ELSE IF Fits(regs[i], start_reg, cap)
    THEN BatchLoop(regs, i + 1, start_reg, Append(batch, regs[i]), cap)
    ELSE <<batch>> \o BatchLoop(regs, i + 1, regs[i].start, <<regs[i]>>, cap)

\* the batches _batch_read hands to _read_multiple, in order
BatchWindows(regs, cap) == BatchLoop(regs, 1, regs[1].start, <<>>, cap)

\* the test of _split_ranges: the register does not continue the window
Gap(r, prev_end) == r.start - prev_end > 1

\* prev_end taken as the last address of register r
PrevEnd_mut(r) == r.start + r.length - 1

\* prev_end after register r
PrevEnd(r) == r.start + r.length

RECURSIVE SplitLoop(_, _, _, _)
SplitLoop(regs, i, prev_end, reg_list) ==
    IF i > Len(regs) THEN <<reg_list>>
    ELSE IF Gap(regs[i], prev_end)
    THEN <<reg_list>> \o SplitLoop(regs, i + 1, PrevEnd(regs[i]), <<regs[i]>>)
    ELSE SplitLoop(regs, i + 1, PrevEnd(regs[i]), Append(reg_list, regs[i]))

\* the lists the generator _split_ranges yields, in order
SplitRanges(regs) == SplitLoop(regs, 1, regs[1].start - 1, <<>>)

SetMin(S) == CHOOSE x \in S : \A y \in S : x <= y
SetMax(S) == CHOOSE x \in S : \A y \in S : x >= y

\* first_reg and num_regs of _read_multiple
FirstReg(w) == SetMin({w[i].start : i \in 1..Len(w)})
NumRegs(w) == SetMax({w[i].start + w[i].length : i \in 1..Len(w)}) - FirstReg(w)

-----------------------------------------------------------------------------
(* read(): what the call does before the first transport exchange.         *)

Warning(missing) == [warning |-> missing]

\* the call goes on to request windows / one register, or has ended
Step(p, rs, catalog, pl, out, d) ==
    [pc |-> p, registers |-> rs, REGS |-> catalog, plan |-> pl,
     outcome |-> out, diag |-> d]

Ended(rs, catalog, out, d) == Step("done", rs, catalog, <<>>, out, d)

\* a lookup that answers an unknown name with None
NotFound_mut(c) == Returned(NoneVal)

\* read(name) when no register of the catalog has that name
NotFound(c) ==
    CASE c \in RTUClasses -> Returned(NotFoundStr)
      [] c = "SaiaMeter" -> Raised("ValueError")
      [] c \in SyncTCPClasses -> Raised("IndexError")
      [] c \in AsyncClasses -> Returned(NotFoundStr)

\* ModbusRTUMeter.read and SaiaMeter.read
SerialRead(c, catalog, sel) ==
    CASE sel.k = "None" ->
           IF catalog = <<>>
           THEN Ended(catalog, catalog, Raised("IndexError"), <<>>)
           ELSE Step("exchange", catalog, catalog,
                     BatchWindows(catalog, Cap(c)), Pending, <<>>)
      [] sel.k = "list" ->
           LET rs == FilterIn(catalog, sel.names)
               d == IF Len(rs) < Len(sel.names)
                    THEN <<Warning(NotAvailable(catalog, sel.names))>>
                    ELSE <<>>
           IN  IF Len(rs) = 0
               THEN Ended(rs, catalog, ReturnedDict, d)
               ELSE Step("exchange", SortByStart(rs), catalog,
                         BatchWindows(SortByStart(rs), Cap(c)), Pending, d)
      [] sel.k = "str" ->
           LET rs == FilterEq(catalog, sel.name)
           IN  IF Len(rs) = 0
               THEN Ended(rs, catalog, NotFound(c), <<>>)
               ELSE Step("single", <<rs[1]>>, catalog, <<>>, Pending, <<>>)
      [] OTHER -> Ended(<<>>, catalog, Raised("TypeError"), <<>>)

\* ModbusTCPMeter._read_multiple up to the first request: the list it is
\* given is sorted in place, then _split_ranges reads registers[0]
TCPReadMultiple(rs, catalog) ==
    IF rs = <<>>
    THEN Ended(rs, catalog, Raised("IndexError"), <<>>)
    ELSE Step("exchange", SortByStart(rs), catalog,
              SplitRanges(SortByStart(rs)), Pending, <<>>)

\* ModbusTCPMeter.read; with regnames None the list sorted in place is
\* self.REGS itself
TCPRead(c, catalog, sel) ==
    CASE sel.k = "None" -> TCPReadMultiple(catalog, SortByStart(catalog))
      [] sel.k = "str" ->
           LET rs == FilterEq(catalog, sel.name)
           IN  IF Len(rs) = 0
               THEN Ended(rs, catalog, NotFound(c), <<>>)
               ELSE Step("single", <<rs[1]>>, catalog, <<>>, Pending, <<>>)
      [] sel.k = "list" -> TCPReadMultiple(FilterIn(catalog, sel.names), catalog)
      [] OTHER -> Ended(<<>>, catalog, Returned(NoneVal), <<>>)

\* AsyncModbusTCPMeter.read
AsyncRead(c, catalog, sel) ==
    CASE sel.k = "None" -> TCPReadMultiple(catalog, SortByStart(catalog))
      [] sel.k = "str" ->
           LET rs == FilterEq(catalog, sel.name)
           IN  IF Len(rs) = 0
               THEN Ended(rs, catalog, NotFound(c), <<>>)
               ELSE Step("single", <<rs[1]>>, catalog, <<>>, Pending, <<>>)
      [] sel.k \in {"list", "tuple"} ->
           TCPReadMultiple(FilterIn(catalog, sel.names), catalog)
      [] OTHER -> Ended(<<>>, catalog, Returned(NoneVal), <<>>)

ReadStep(c, catalog, sel) ==
    IF c \in SyncTCPClasses THEN TCPRead(c, catalog, sel)
    ELSE IF c \in AsyncClasses THEN AsyncRead(c, catalog, sel)
    ELSE SerialRead(c, catalog, sel)

-----------------------------------------------------------------------------
(* The meter: what it holds at each address.                               *)

\* register contents the meter can hold, per register length in words
Profiles ==
    << (1 :> <<0>>     @@ 2 :> <<0, 0>>         @@ 4 :> <<0, 0, 0, 0>>),
       (1 :> <<65535>> @@ 2 :> <<65535, 65535>> @@ 4 :> <<65535, 65535, 65535, 65535>>),
       (1 :> <<32767>> @@ 2 :> <<32767, 65535>> @@ 4 :> <<32767, 65535, 65535, 65535>>),
       (1 :> <<32768>> @@ 2 :> <<0, 65535>>     @@ 4 :> <<0, 0, 0, 65535>>),
       (1 :> <<65534>> @@ 2 :> <<65535, 65534>> @@ 4 :> <<65535, 65535, 65535, 65534>>),
       (1 :> <<1234>>  @@ 2 :> <<1, 2>>         @@ 4 :> <<0, 1, 2, 3>>) >>

Images == DOMAIN Profiles

Owner(c, a) == {r \in BaseRegs(c) : r.start <= a /\ a < r.start + r.length}

\* the 16-bit word a Modbus meter holds at address a
MemWord(c, img, a) ==
    IF Owner(c, a) = {} THEN 0
    ELSE LET r == CHOOSE r \in Owner(c, a) : TRUE
         IN  Profiles[img][r.length][a - r.start + 1]

\* the 32-bit register an S-Bus meter holds at address a, as two halves
MemUnit(c, img, a) ==
    IF Owner(c, a) = {} THEN <<0, 0>>
    ELSE LET r == CHOOSE r \in Owner(c, a) : TRUE
             p == Profiles[img][2 * r.length]
             k == a - r.start
         IN  <<p[2 * k + 1], p[2 * k + 2]>>

\* what instrument.read_registers returns
ReadRegisters(c, img, first, count) ==
    [i \in 1..count |->
        IF c = "SaiaMeter" THEN MemUnit(c, img, first + i - 1)
        ELSE MemWord(c, img, first + i - 1)]

\* the payload of a Modbus TCP response: count registers, two bytes each
Payload(c, img, first, count) ==
    PackH([i \in 1..count |-> MemWord(c, img, first + i - 1)])

\* a zero list of one entry per register
Degraded_mut(count) == [i \in 1..count |-> 0]

\* the list the synchronous client makes up when the attempts run out
Degraded(count) == [i \in 1..(2 * count) |-> 0]

-----------------------------------------------------------------------------
(* _interpret_result                                                       *)

\* results.update(d)
Update(d1, d2) ==
    [n \in (DOMAIN d1) \cup (DOMAIN d2) |-> IF n \in DOMAIN d2 THEN d2[n] ELSE d1[n]]

\* data[start:end] with start = lo (0-based) and end = hi
Slice(data, lo, hi) ==
    IF lo >= Len(data) \/ hi <= lo THEN <<>>
    ELSE SubSeq(data, lo + 1, IF hi > Len(data) THEN Len(data) ELSE hi)

\* the decoded registers of one window, or the first error a decode raised;
\* vals[i] is what _convert_value gave for regs[i]
Interpreted(regs, vals) ==
    LET bad == {i \in 1..Len(regs) : vals[i].kind = "raise"}
    IN  IF bad # {}
        THEN [err |-> vals[SetMin(bad)].err, dict |-> <<>>]
        ELSE [err |-> "",
              dict |-> [n \in NamesOf(regs) |->
                          LET i == CHOOSE i \in 1..Len(regs) :
                                     /\ regs[i].name = n
                                     /\ \A j \in (i + 1)..Len(regs) : regs[j].name # n
                          IN  vals[i].val]]

\* ModbusRTUMeter._interpret_result
RTUInterpret(c, data, regs) ==
    LET first_reg == FirstReg(regs)
        conv(r) == RTUConvert(c, Slice(data, r.start - first_reg,
                                       r.start - first_reg + r.length),
                              r.signed, r.decimals, r.is_float)
    IN  Interpreted(regs, [i \in 1..Len(regs) |-> conv(regs[i])])

\* SaiaMeter._interpret_result
SaiaInterpret(data, regs) ==
    LET first_reg == FirstReg(regs)
        conv(r) == SaiaConvert(Slice(data, r.start - first_reg,
                                     r.start - first_reg + r.length),
                               r.signed, r.decimals)
    IN  Interpreted(regs, [i \in 1..Len(regs) |-> conv(regs[i])])

\* the correction of ModbusTCPMeter._interpret_result: 0 stands for 100 %
PowerFactorFix(regname, v) ==
    IF regname = "power_factor_total" /\ v.kind = "return" /\ IsZero(v.val)
    THEN Returned(One) ELSE v

\* ModbusTCPMeter._interpret_result
TCPInterpret(c, data, regs) ==
    LET first_reg == FirstReg(regs)
        conv(r) == PowerFactorFix(r.name,
                       TCPConvert(c, Slice(data, (r.start - first_reg) * 2,
                                           (r.start - first_reg) * 2 + r.length * 2),
                                  r.signed, r.decimals, r.is_float))
    IN  Interpreted(regs, [i \in 1..Len(regs) |-> conv(regs[i])])

-----------------------------------------------------------------------------
(* One transport exchange.                                                 *)

\* one entry of the exchange log: the request and the buffer it produced
Exchange(via, first, count, ok, data) ==
    [via |-> via, first |-> first, count |-> count, ok |-> ok, data |-> data]

\* the typed helpers of the serial drivers (read_register, read_long):
\* big-endian, two's complement when signed, divided by 10^decimals
DriverValue(words, signed, decimals) ==
    Num(Unpack(PackH(IF Len(words) = 1 THEN words[1]
                     ELSE words[1] \o words[2]), signed), decimals)

\* ModbusRTUMeter._read_single and SaiaMeter._read_single:
\* the driver call made and the value returned
SerialSingle(c, img, r) ==
    LET data == ReadRegisters(c, img, r.start, r.length)
        words == IF c = "SaiaMeter" THEN data
                 ELSE [i \in 1..Len(data) |-> <<data[i]>>]
    IN  CASE r.length = 1 ->
               [via |-> "read_register",
                out |-> Returned(DriverValue(words, r.signed, r.decimals))]
          [] r.length = 2 /\ c # "SaiaMeter" /\ r.is_float ->
               [via |-> "read_float", out |-> Returned(FloatVal(PackH(data)))]
          [] r.length = 2 /\ ~(c # "SaiaMeter" /\ r.is_float) ->
               [via |-> "read_long",
                out |-> Returned(DriverValue(words, r.signed, r.decimals))]
          [] r.length = 4 ->
               [via |-> "read_registers",
                out |-> IF c = "SaiaMeter"
                        THEN SaiaConvert(data, r.signed, r.decimals)
                        ELSE RTUConvert(c, data, r.signed, r.decimals, r.is_float)]
          [] OTHER -> [via |-> "", out |-> Returned(NoneVal)]

-----------------------------------------------------------------------------
(* The state machine.                                                      *)

NoCodec == [k |-> "none"]

\* the connection attribute after construction: ModbusTCPMeter.__init__
\* assigns no self.device, MulticubeMeter.__init__ connects, and
\* AsyncModbusTCPMeter.__init__ sets the writer to None
InitDevice(c) ==
    CASE c = "SMAMeter" -> "unset"
      [] c = "MulticubeMeter" -> "open"
      [] c \in AsyncClasses -> "none"
      [] OTHER -> "serial"

IdleCall ==
    /\ pc = "idle"
    /\ regnames = SelNone
    /\ registers = <<>>
    /\ plan = <<>>
    /\ sent = <<>>
    /\ results = <<>>
    /\ outcome = Pending
    /\ diag = <<>>
    /\ fault = FALSE

\* the REGS attribute is one list object for every object of the class:
\* a class attribute (MEM001, SMAMeter, SaiaMeter), or ABBMeter._REGS taken
\* as it is; MulticubeMeter.__init__ builds a list of its own
SharesCatalog(c) == c # "MulticubeMeter"

\* self.device / self.writer after construction, at the byte level
InitLink(c) ==
    CASE c = "SMAMeter" -> [k |-> "unset"]
      [] c = "MulticubeMeter" -> [k |-> "conn", id |-> 1]
      [] c \in AsyncClasses -> [k |-> "none"]
      [] OTHER -> [k |-> "serial"]

\* a connection just opened: nothing written, nothing on its way
NewConn == [written |-> 0, pending |-> <<>>, inbox |-> <<>>, closed |-> FALSE]

\* the connections open after construction
InitConns(c) == IF c = "MulticubeMeter" THEN <<NewConn>> ELSE <<>>

Init ==
    /\ cls \in Classes
    /\ REGS \in Catalogs(cls)
    /\ device = InitDevice(cls)
    /\ IdleCall
    /\ cin = NoCodec
    /\ cout = NoCodec
    /\ peer = REGS
    /\ conns = InitConns(cls)
    /\ link = InitLink(cls)
    /\ task = <<>>

\* read(regnames) up to its first transport exchange
Read ==
    /\ pc = "idle"
    /\ \E sel \in Selectors :
         LET s == ReadStep(cls, REGS, sel)
         IN  /\ regnames' = sel
             /\ pc' = s.pc
             /\ registers' = s.registers
             /\ REGS' = s.REGS
             /\ plan' = s.plan
             /\ outcome' = s.outcome
             /\ diag' = s.diag
             /\ peer' = IF SharesCatalog(cls) THEN s.REGS ELSE peer
    /\ UNCHANGED <<cls, device, sent, results, fault, cin, cout>>
    /\ UNCHANGED wirevars

\* the dict of one window is merged and the loop goes on or returns
Merge(res) ==
    IF res.err # ""
    THEN /\ outcome' = Raised(res.err)
         /\ pc' = "done"
         /\ UNCHANGED <<results, plan>>
    ELSE /\ results' = Update(results, res.dict)
         /\ plan' = Tail(plan)
         /\ pc' = IF Tail(plan) = <<>> THEN "done" ELSE "exchange"
         /\ outcome' = IF Tail(plan) = <<>> THEN ReturnedDict ELSE Pending

\* _read_multiple of the serial classes on the next batch
SerialExchange ==
    /\ pc = "exchange"
    /\ cls \notin TCPClasses
    /\ IF Head(plan) = <<>>
       THEN /\ outcome' = Raised("ValueError")
            /\ pc' = "done"
            /\ UNCHANGED <<sent, results, plan>>
       ELSE \E img \in Images :
              LET w == Head(plan)
                  data == ReadRegisters(cls, img, FirstReg(w), NumRegs(w))
              IN  /\ sent' = Append(sent, Exchange("read_registers", FirstReg(w),
                                                   NumRegs(w), TRUE, data))
                  /\ Merge(IF cls = "SaiaMeter" THEN SaiaInterpret(data, w)
                           ELSE RTUInterpret(cls, data, w))
    /\ UNCHANGED wirevars
    /\ UNCHANGED <<peer, cls, REGS, device, regnames, registers, diag, fault, cin, cout>>

\* _read_single of the serial classes
SerialSingleRead ==
    /\ pc = "single"
    /\ cls \notin TCPClasses
    /\ \E img \in Images :
         LET r == registers[1]
             s == SerialSingle(cls, img, r)
         IN  /\ sent' = IF s.via = "" THEN sent
                        ELSE Append(sent, Exchange(s.via, r.start, r.length, TRUE,
                                                     ReadRegisters(cls, img, r.start, r.length)))
             /\ outcome' = s.out
    /\ pc' = "done"
    /\ UNCHANGED wirevars
    /\ UNCHANGED <<peer, cls, REGS, device, regnames, registers, plan, results, diag,
                   fault, cin, cout>>

\* an error swallowed into the dict read so far
Propagated_mut(e) == ReturnedDict

\* _read_multiple, _batch_read and read hold no try: an error of the driver
\* leaves read() as it was raised
Propagated(e) == Raised(e)

\* the serial driver raises during an exchange; the error leaves read()
DriverFault ==
    /\ pc \in {"exchange", "single"}
    /\ cls \notin TCPClasses
    /\ pc = "exchange" => Head(plan) # <<>>
    /\ LET w == IF pc = "single" THEN registers ELSE Head(plan)
       IN  sent' = Append(sent, Exchange("fault", FirstReg(w), NumRegs(w), FALSE, <<>>))
    /\ outcome' = Propagated("IOError")
    /\ fault' = TRUE
    /\ pc' = "done"
    /\ UNCHANGED wirevars
    /\ UNCHANGED <<peer, cls, REGS, device, regnames, registers, plan, results, diag,
                   cin, cout>>

\* ModbusTCPMeter._perform_request reads self.device, which was never assigned
TCPNoDevice ==
    /\ pc \in {"exchange", "single"}
    /\ cls \in SyncTCPClasses
    /\ device = "unset"
    /\ outcome' = Raised("AttributeError")
    /\ pc' = "done"
    /\ UNCHANGED wirevars
    /\ UNCHANGED <<peer, cls, REGS, device, regnames, registers, plan, sent, results,
                   diag, fault, cin, cout>>

\* the bytes one request of the synchronous client ends with: the payload,
\* or the zero list when the attempts ran out
Response(c, img, answered, first, count) ==
    IF answered THEN Payload(c, img, first, count) ELSE Degraded(count)

\* ModbusTCPMeter._read_multiple on the next window
TCPExchange ==
    /\ pc = "exchange"
    /\ cls \in SyncTCPClasses
    /\ device # "unset"
    /\ \E img \in Images, answered \in BOOLEAN :
         LET w == Head(plan)
             data == Response(cls, img, answered, FirstReg(w), NumRegs(w))
         IN  /\ sent' = Append(sent, Exchange("tcp", FirstReg(w), NumRegs(w), answered, data))
             /\ Merge(TCPInterpret(cls, data, w))
    /\ device' = "open"
    /\ UNCHANGED wirevars
    /\ UNCHANGED <<peer, cls, REGS, regnames, registers, diag, fault, cin, cout>>

\* ModbusTCPMeter._read_single
TCPSingleRead ==
    /\ pc = "single"
    /\ cls \in SyncTCPClasses
    /\ device # "unset"
    /\ \E img \in Images, answered \in BOOLEAN :
         LET r == registers[1]
             data == Response(cls, img, answered, r.start, r.length)
         IN  /\ sent' = Append(sent, Exchange("tcp", r.start, r.length, answered, data))
             /\ outcome' = TCPConvert(cls, data, r.signed, r.decimals, FALSE)
    /\ device' = "open"
    /\ pc' = "done"
    /\ UNCHANGED wirevars
    /\ UNCHANGED <<peer, cls, REGS, regnames, registers, plan, results, diag, fault,
                   cin, cout>>

\* AsyncModbusTCPMeter._read_multiple on the next window
AsyncExchange ==
    /\ pc = "exchange"
    /\ cls \in AsyncClasses
    /\ \E img \in Images :
         LET w == Head(plan)
             data == Payload(cls, img, FirstReg(w), NumRegs(w))
         IN  /\ sent' = Append(sent, Exchange("tcp", FirstReg(w), NumRegs(w), TRUE, data))
             /\ Merge(TCPInterpret(cls, data, w))
    /\ device' = "open"
    /\ UNCHANGED wirevars
    /\ UNCHANGED <<peer, cls, REGS, regnames, registers, diag, fault, cin, cout>>

\* AsyncModbusTCPMeter._read_single
AsyncSingleRead ==
    /\ pc = "single"
    /\ cls \in AsyncClasses
    /\ \E img \in Images :
         LET r == registers[1]
             data == Payload(cls, img, r.start, r.length)
         IN  /\ sent' = Append(sent, Exchange("tcp", r.start, r.length, TRUE, data))
             /\ outcome' = TCPConvert(cls, data, r.signed, r.decimals, r.is_float)
    /\ device' = "open"
    /\ pc' = "done"
    /\ UNCHANGED wirevars
    /\ UNCHANGED <<peer, cls, REGS, regnames, registers, plan, results, diag, fault,
                   cin, cout>>

\* the caller starts its next read() on the same object
NextCall ==
    /\ pc = "done"
    /\ pc' = "idle"
    /\ regnames' = SelNone
    /\ registers' = <<>>
    /\ plan' = <<>>
    /\ sent' = <<>>
    /\ results' = <<>>
    /\ outcome' = Pending
    /\ diag' = <<>>
    /\ fault' = FALSE
    /\ UNCHANGED wirevars
    /\ UNCHANGED <<peer, cls, REGS, device, cin, cout>>

Next ==
    \/ Read
    \/ SerialExchange
    \/ SerialSingleRead
    \/ DriverFault
    \/ TCPNoDevice
    \/ TCPExchange
    \/ TCPSingleRead
    \/ AsyncExchange
    \/ AsyncSingleRead
    \/ NextCall

Spec == Init /\ [][Next]_vars

-----------------------------------------------------------------------------
(* Vocabulary of the properties.                                           *)

RECURSIVE Flatten(_)
Flatten(ws) == IF ws = <<>> THEN <<>> ELSE ws[1] \o Flatten(Tail(ws))

\* the window of ws that holds the k-th register of Flatten(ws)
WinOf(ws, k) ==
    CHOOSE j \in 1..Len(ws) :
        /\ Len(Flatten(SubSeq(ws, 1, j - 1))) < k
        /\ k <= Len(Flatten(SubSeq(ws, 1, j)))

\* the call is a batched read that has planned its windows and requested none
Planned == pc = "exchange" /\ sent = <<>>

Batched == regnames.k \in {"None", "list"}

\* the names of the selector that the catalog holds
ResolvedNames ==
    IF regnames.k = "None" THEN NamesOf(REGS)
    ELSE {n \in NamesOf(REGS) : InSeq(n, regnames.names)}

MissingNames ==
    {regnames.names[i] : i \in 1..Len(regnames.names)} \ NamesOf(REGS)

\* the windows of the whole call, recomputed from the list handed to the planner
WindowsOfCall ==
    IF cls \in TCPClasses THEN SplitRanges(registers)
    ELSE BatchWindows(registers, Cap(cls))

-----------------------------------------------------------------------------
(* C1 *)

\* C1 as claimed: whatever list read() hands to _batch_read (absent or list
\* selector), every batch is non-empty and spans at most the cap
\* (max(start+length) - min(start) <= 125, or 10 for SaiaMeter), the batches
\* cut the list in order, and a register stays in the batch of its
\* predecessor exactly when (start + length) - first address of that batch
\* is within the cap; 10/2 and 14/2 give the single window first 10, count 6.
C1_BatchWithinCap ==
    (cls \notin TCPClasses /\ Planned) =>
        /\ Flatten(plan) = registers
        /\ \A j \in 1..Len(plan) :
               plan[j] # <<>> /\ NumRegs(plan[j]) <= Cap(cls)
        /\ \A i \in 2..Len(registers) :
               (WinOf(plan, i) = WinOf(plan, i - 1)) <=>
                   (registers[i].start + registers[i].length
                        - FirstReg(plan[WinOf(plan, i - 1)]) <= Cap(cls))
        /\ ({registers[i].start : i \in 1..Len(registers)} = {10, 14}
               /\ cls \in RTUClasses)
              => (Len(plan) = 1 /\ FirstReg(plan[1]) = 10 /\ NumRegs(plan[1]) = 6)

\* the same statement for the lists that arrive sorted by start: it holds
C1_BatchWithinCapWhenSorted == IsSorted(registers) => C1_BatchWithinCap

-----------------------------------------------------------------------------
(* C2 *)

-----------------------------------------------------------------------------
(* C3 *)

\* C3 as claimed: a list selector that resolves to no register ends in the
\* empty dict, with no transport exchange and no error, on every class.
C3_EmptySubsetReturnsEmpty ==
    (pc = "done" /\ regnames.k = "list" /\ ResolvedNames = {}) =>
        /\ outcome = ReturnedDict
        /\ results = <<>>
        /\ sent = <<>>

-----------------------------------------------------------------------------
(* C4 *)

\* C4 as claimed: a list selector with a missing and a present name prints a
\* diagnostic naming the missing registers, does not raise, requests only
\* the found registers and returns exactly the present names, on every class.
C4_MissingNamesDiagnosed ==
    (/\ pc \in {"exchange", "done"} /\ regnames.k = "list" /\ ~fault
     /\ ResolvedNames # {} /\ MissingNames # {}) =>
        /\ Len(diag) = 1
        /\ {diag[1].warning[i] : i \in 1..Len(diag[1].warning)} = MissingNames
        /\ NamesOf(registers) = ResolvedNames
        /\ pc = "done" =>
               /\ outcome = ReturnedDict
               /\ DOMAIN results = ResolvedNames
               /\ Len(sent) = Len(WindowsOfCall)

\* the same statement for the serial classes: it holds
C4_OnSerialClasses == cls \notin TCPClasses => C4_MissingNamesDiagnosed

-----------------------------------------------------------------------------
(* C5 *)

\* C5: a name that is not in the catalog ends the call, without any
\* transport exchange, in an outcome that is neither None nor a number: an
\* error is raised or the not-found message is returned.
C5_NotFoundIsExplicit ==
    (pc = "done" /\ regnames.k = "str" /\ regnames.name \notin NamesOf(REGS)) =>
        /\ sent = <<>>
        /\ \/ outcome.kind = "raise"
           \/ outcome.kind = "return" /\ outcome.val.t = "str"

\* a finished read of an unknown name
C5_Witness ==
    /\ pc = "done" /\ regnames.k = "str"
    /\ regnames.name \notin NamesOf(REGS)
    /\ REGS # <<>>

-----------------------------------------------------------------------------
(* C6 *)

\* C6 as claimed: a selector that is neither None, a string nor a list is
\* rejected with an error before any connection or request, on every class.
C6_BadSelectorRejected ==
    (pc = "done" /\ regnames.k \notin {"None", "str", "list"}) =>
        /\ outcome.kind = "raise"
        /\ sent = <<>>
        /\ device = InitDevice(cls)

-----------------------------------------------------------------------------
(* C7 *)

\* the windows cut the resolved registers, none of them empty
WindowsPartition ==
    /\ NamesOf(registers) = ResolvedNames
    /\ Len(registers) = Cardinality(ResolvedNames)
    /\ \A j \in 1..Len(WindowsOfCall) : WindowsOfCall[j] # <<>>
    /\ \A n \in ResolvedNames :
           Cardinality({<<j, i>> \in (1..Len(WindowsOfCall)) \X (1..Len(registers)) :
                           /\ i <= Len(WindowsOfCall[j])
                           /\ WindowsOfCall[j][i].name = n}) = 1

\* one exchange per window, in order
OneExchangePerWindow ==
    /\ Len(sent) = Len(WindowsOfCall)
    /\ \A j \in 1..Len(sent) :
           /\ sent[j].first = FirstReg(WindowsOfCall[j])
           /\ sent[j].count = NumRegs(WindowsOfCall[j])

\* C7 as claimed: an absent or list selector that resolves to at least one
\* register is read window by window: the windows partition the resolved
\* registers, none is empty, each is requested once, and the keys of the
\* returned dict are the resolved names.
C7_WindowsPartitionAndMerge ==
    (pc = "done" /\ Batched /\ ResolvedNames # {} /\ ~fault) =>
        /\ WindowsPartition
        /\ OneExchangePerWindow
        /\ outcome = ReturnedDict
        /\ DOMAIN results = ResolvedNames

\* the same statement for the classes whose object holds a connection
\* attribute: it holds
C7_OnConnectedClasses == device # "unset" => C7_WindowsPartitionAndMerge

-----------------------------------------------------------------------------
(* Direct calls of _convert_value.                                         *)

RawWords == {0, 1, 32767, 32768, 65535}

Decimals == {-1, 0, 2}

\* the word lists of a register of 1, 2 or 4 words
RawWordLists == UNION {[1..n -> RawWords] : n \in {1, 2, 4}}

CodecCalls ==
    {[k |-> "call", values |-> ws, signed |-> sg, decimals |-> d, is_float |-> FALSE] :
        ws \in RawWordLists, sg \in BOOLEAN, d \in Decimals}

InitCodec ==
    /\ cls \in RTUClasses \cup TCPClasses
    /\ REGS = <<>>
    /\ device = InitDevice(cls)
    /\ IdleCall
    /\ cin \in CodecCalls
    /\ cout = NoCodec
    /\ peer = <<>>
    /\ conns = InitConns(cls)
    /\ link = InitLink(cls)
    /\ task = <<>>

\* ModbusRTUMeter._convert_value on the words of one register
ConvertRTU ==
    /\ cls \in RTUClasses
    /\ cout = NoCodec
    /\ cout' = RTUConvert(cls, cin.values, cin.signed, cin.decimals, cin.is_float)
    /\ UNCHANGED wirevars
    /\ UNCHANGED <<peer, cls, REGS, device, pc, regnames, registers, plan, sent,
                   results, outcome, diag, fault, cin>>

\* ModbusTCPMeter._convert_value on the payload bytes of one register
ConvertTCP ==
    /\ cls \in TCPClasses
    /\ cout = NoCodec
    /\ cout' = TCPConvert(cls, PackH(cin.values), cin.signed, cin.decimals,
                          cin.is_float)
    /\ UNCHANGED wirevars
    /\ UNCHANGED <<peer, cls, REGS, device, pc, regnames, registers, plan, sent,
                   results, outcome, diag, fault, cin>>

NextCodec == ConvertRTU \/ ConvertTCP

SpecCodec == InitCodec /\ [][NextCodec]_vars

-----------------------------------------------------------------------------
(* The integer a register holds, as the specification words it: the words  *)
(* are the base-65536 digits, most significant first, and a signed         *)
(* register with its top bit set stands for the value minus 2^(16 n).      *)

RECURSIVE WordAddOne(_)
WordAddOne(ws) ==
    IF ws = <<>> THEN <<>>
    ELSE IF ws[Len(ws)] = 65535 THEN Append(WordAddOne(Front(ws)), 0)
    ELSE Append(Front(ws), ws[Len(ws)] + 1)

RECURSIVE WordDigits(_)
WordDigits(ws) ==
    IF ws = <<>> THEN <<>>
    ELSE WordDigits(Front(ws)) \o <<ws[Len(ws)] \div 256, ws[Len(ws)] % 256>>

RawInteger(ws, signed) ==
    IF signed /\ ws[1] >= 32768
    THEN IntV(TRUE, Strip(WordDigits(WordAddOne([i \in 1..Len(ws) |-> 65535 - ws[i]]))))
    ELSE IntV(FALSE, Strip(WordDigits(ws)))

\* the words a payload of bytes carries
WordsOfBytes(bs) == [i \in 1..(Len(bs) \div 2) |-> bs[2 * i - 1] * 256 + bs[2 * i]]

\* 2^n - 1 for n in 64, 63, 32, 31, 16, 15
SerialSentinels ==
    {IntV(FALSE, <<255, 255, 255, 255, 255, 255, 255, 255>>),
     IntV(FALSE, <<127, 255, 255, 255, 255, 255, 255, 255>>),
     IntV(FALSE, <<255, 255, 255, 255>>),
     IntV(FALSE, <<127, 255, 255, 255>>),
     IntV(FALSE, <<255, 255>>),
     IntV(FALSE, <<127, 255>>)}

\* 2^16 - 1, 2^15 - 1, 2^15, -2^15
TCPSentinels ==
    {IntV(FALSE, <<255, 255>>), IntV(FALSE, <<127, 255>>),
     IntV(FALSE, <<128, 0>>), IntV(TRUE, <<128, 0>>)}

\* the sentinel set the specification gives the class of the meter
Sentinels(c) == IF c \in SyncTCPClasses THEN TCPSentinels ELSE SerialSentinels

-----------------------------------------------------------------------------
(* C8 *)

\* C8 as claimed: on both transports _convert_value of a non-float register
\* of 1, 2 or 4 words returns, unless the big-endian (two's complement when
\* signed) integer of its words is a null sentinel, that integer divided by
\* 10^decimals.
C8_NonFloatDecode ==
    (cout # NoCodec /\ RawInteger(cin.values, cin.signed) \notin Sentinels(cls)) =>
        cout = Returned(Num(RawInteger(cin.values, cin.signed), cin.decimals))

\* the same statement without the 4-word registers on TCP: it holds
C8_ExceptFourWordsOnTCP ==
    (cls \in TCPClasses /\ Len(cin.values) = 4) \/ C8_NonFloatDecode

-----------------------------------------------------------------------------
(* C9 *)

\* the integer of register r in the buffer of the j-th exchange
RawOfRegister(j, r) ==
    LET off == r.start - sent[j].first
        ws == IF cls \in TCPClasses
              THEN WordsOfBytes(Slice(sent[j].data, 2 * off, 2 * off + 2 * r.length))
              ELSE Slice(sent[j].data, off, off + r.length)
    IN  RawInteger(ws, r.signed)

\* C9: in a batched read of an ABB serial meter or of a TCP meter, a
\* non-float register is None exactly when the integer of its words is in
\* the sentinel set of the meter; a sentinel is never reported as 0 and the
\* raw integer 0 is never reported as None.
C9_NoneIffSentinel ==
    (/\ Batched /\ outcome.kind # "raise"
     /\ cls \in {"ABBMeter"} \cup SyncTCPClasses) =>
        \A j \in 1..Len(sent) : \A i \in 1..Len(WindowsOfCall[j]) :
            LET r == WindowsOfCall[j][i]
                raw == RawOfRegister(j, r)
            IN  ~r.is_float =>
                  /\ r.name \in DOMAIN results
                  /\ (results[r.name] = NoneVal) <=> (raw \in Sentinels(cls))
                  /\ raw \in Sentinels(cls) => ~IsZero(results[r.name])
                  /\ raw.mag = <<>> => results[r.name] # NoneVal

\* a batched read of an ABB meter that returned None for one register and a
\* number for another
C9_Witness ==
    /\ cls = "ABBMeter" /\ pc = "done" /\ Batched /\ outcome = ReturnedDict
    /\ \E n, m \in DOMAIN results :
           results[n] = NoneVal /\ results[m].t = "num"

-----------------------------------------------------------------------------
(* C10 *)

\* C10 as claimed: read(name) of a register of the catalog performs exactly
\* one exchange, starting at the register's start and as many registers
\* long as the register (read_register for 1 word, read_long or read_float
\* for 2, read_registers for 4 on the serial Modbus classes), and returns a
\* single value.
C10_SingleReadOneExchange ==
    (/\ pc = "done" /\ regnames.k = "str" /\ ~fault
     /\ regnames.name \in NamesOf(REGS)) =>
        LET r == FilterEq(REGS, regnames.name)[1]
        IN  /\ Len(sent) = 1
            /\ sent[1].first = r.start
            /\ sent[1].count = r.length
            /\ cls \in RTUClasses =>
                   sent[1].via = CASE r.length = 1 -> "read_register"
                                   [] r.length = 2 /\ r.is_float -> "read_float"
                                   [] r.length = 2 /\ ~r.is_float -> "read_long"
                                   [] r.length = 4 -> "read_registers"
            /\ outcome.kind = "return"

\* the same statement for the classes whose object holds a connection
\* attribute: it holds
C10_OnConnectedClasses == device # "unset" => C10_SingleReadOneExchange

-----------------------------------------------------------------------------
(* The TCP exchange at the level of bytes: _modbus_message,               *)
(* _perform_request and the coroutines of AsyncModbusTCPMeter.             *)

\* requests made on one object in a behaviour
MaxCalls == 2

\* the largest int CPython keeps as one shared object: above it, two equal
\* ints may or may not be the same object
SmallInts == 256

\* the callers of one object: a synchronous object serves one call at a
\* time, the coroutines of two callers of an async object interleave
Callers(c) == IF c \in AsyncClasses THEN {1, 2} ELSE {1}

\* random.randint(1, 2**16 - 1)
TransactionIds == {1, 4660, 65535}

\* the transaction id of the byte-level exchanges: the client never reads
\* it back from a response
WireTransactionIds == {4660}

\* the slaveaddress default of the constructor
DeviceId(c) == IF c = "MulticubeMeter" THEN 1 ELSE 126

PROTOCOL_CODE(c) == 0
FUNCTION_CODE(c) == 3

\* a start address that is not reduced by the offset
StartField_mut(c, start_reg) == start_reg

\* the start address field of the frame
StartField(c, start_reg) == start_reg - REG_OFFSET(c)

\* struct.pack(">HHHBBHH", ...)
ModbusMessage(c, transaction_id, start_reg, num_regs) ==
    PackH(<<transaction_id, PROTOCOL_CODE(c), 6>>)
        \o <<DeviceId(c), FUNCTION_CODE(c)>>
        \o PackH(<<StartField(c, start_reg), num_regs>>)

\* struct.unpack(">H", message[-2:])[0]
CountOf(message) ==
    message[Len(message) - 1] * 256 + message[Len(message)]

\* expect_bytes
ExpectBytes(message) == 9 + 2 * CountOf(message)

\* a set of registers as a list in ascending order of start
RECURSIVE Sorted(_)
Sorted(S) ==
    IF S = {} THEN <<>>
    ELSE LET r == CHOOSE r \in S : TRUE
         IN  InsertByStart(r, Sorted(S \ {r}))

\* the catalog read at the byte level: one more register, next to the
\* others, so that a response can be longer than twice its header
WireRegs(c) ==
    BaseRegs(c) \cup {Reg("voltage_l1_l2", 40193, 1, FALSE, 1, FALSE)}

\* the windows requested at the byte level: those of read() on the whole
\* catalog
WireWindows(c) ==
    {SplitRanges(Sorted(WireRegs(c)))[j] :
        j \in 1..Len(SplitRanges(Sorted(WireRegs(c))))}

\* the response of the meter to the k-th request of a connection: 9 header
\* bytes and two bytes per register, each byte known by request and place
ResponseOf(k, message) ==
    [i \in 1..ExpectBytes(message) |-> [of |-> k, at |-> i]]

\* device.send / writer.write: the frame leaves and the meter's response is
\* on its way
Written(conn, message) ==
    [conn EXCEPT !.written = @ + 1,
                 !.pending = IF conn.closed THEN @
                             ELSE @ \o ResponseOf(conn.written + 1, message)]

\* a slice that keeps the last byte of the header
AfterHeader_mut(data) == SubSeq(data, 9, Len(data))

\* data[9:]
AfterHeader(data) == SubSeq(data, 10, Len(data))

\* how an exchange ends
Payload9(data) == [kind |-> "payload", bytes |-> AfterHeader(data)]
ZeroFilled(message) == [kind |-> "degraded", bytes |-> Degraded(CountOf(message))]

\* the outcomes of "len(data) is not expect_bytes": unequal ints are never
\* the same object; equal ints are the same object when small, and either
\* when large
IsNot(n, expect_bytes) ==
    IF n # expect_bytes THEN {TRUE}
    ELSE IF expect_bytes <= SmallInts THEN {FALSE}
    ELSE {TRUE, FALSE}

\* a cap test that lets one more attempt through
CapReached_mut(attempt) == attempt > 10

\* if attempt >= 10
CapReached(attempt) == attempt >= 10

IdleTask(n) == [pc |-> "idle", calls |-> n]

RECURSIVE CallsOf(_, _)
CallsOf(tasks, S) ==
    IF S = {} THEN 0
    ELSE LET t == CHOOSE t \in S : TRUE
         IN  tasks[t].calls + CallsOf(tasks, S \ {t})

\* the requests started so far on the object
TotalCalls == CallsOf(task, DOMAIN task)

readvars == <<REGS, device, pc, regnames, registers, plan, sent, results,
              outcome, diag, fault, cin, cout, peer>>

InitWire ==
    /\ cls \in TCPClasses
    /\ REGS = <<>>
    /\ device = InitDevice(cls)
    /\ IdleCall
    /\ cin = NoCodec
    /\ cout = NoCodec
    /\ peer = <<>>
    /\ conns = InitConns(cls)
    /\ link = InitLink(cls)
    /\ task = [t \in Callers(cls) |-> IdleTask(0)]

\* the request of one window by the synchronous client: _modbus_message,
\* then _perform_request up to the receive loop
PerformRequest ==
    /\ cls \in SyncTCPClasses
    /\ task[1].pc = "idle"
    /\ TotalCalls < MaxCalls
    /\ \E w \in WireWindows(cls), tid \in WireTransactionIds :
         LET message == ModbusMessage(cls, tid, FirstReg(w), NumRegs(w))
             started == [pc |-> "recv", calls |-> task[1].calls + 1, regs |-> w,
                         tid |-> tid, msg |-> message, data |-> <<>>,
                         attempt |-> 1, recvs |-> 0, out |-> Pending]
         IN  IF link.k = "unset"
             THEN /\ task' = [task EXCEPT ![1] =
                                 [started EXCEPT !.pc = "done",
                                                 !.out = Raised("AttributeError")]]
                  /\ UNCHANGED conns
             ELSE \/ /\ conns' = [conns EXCEPT ![link.id] = Written(@, message)]
                     /\ task' = [task EXCEPT ![1] = started]
                  \/ /\ conns[link.id].closed
                     /\ task' = [task EXCEPT ![1] =
                                    [started EXCEPT !.pc = "done",
                                                    !.out = Raised("OSError")]]
                     /\ UNCHANGED conns
    /\ UNCHANGED <<cls, link, readvars>>

\* recv(2048) returns: bytes have arrived, or the meter has closed the
\* connection and nothing is left to arrive (recv then returns b"")
RecvReturns(conn) ==
    \/ conn.inbox # <<>>
    \/ conn.closed /\ conn.pending = <<>>

\* one turn of the receive loop: recv returns what has arrived, then the
\* cap test, the increment and the loop test
Recv ==
    /\ cls \in SyncTCPClasses
    /\ task[1].pc = "recv"
    /\ RecvReturns(conns[link.id])
    /\ LET t0 == task[1]
           t == [t0 EXCEPT !.recvs = t0.recvs + 1]
           data == t.data \o conns[link.id].inbox
       IN  /\ conns' = [conns EXCEPT ![link.id].inbox = <<>>]
           /\ IF CapReached(t.attempt)
              THEN task' = [task EXCEPT ![1] =
                               [t EXCEPT !.data = data, !.pc = "done",
                                         !.out = ZeroFilled(t.msg)]]
              ELSE \E again \in IsNot(Len(data), ExpectBytes(t.msg)) :
                     task' = [task EXCEPT ![1] =
                                 IF again
                                 THEN [t EXCEPT !.data = data,
                                                !.attempt = t.attempt + 1]
                                 ELSE [t EXCEPT !.data = data,
                                                !.attempt = t.attempt + 1,
                                                !.pc = "done",
                                                !.out = Payload9(data)]]
    /\ UNCHANGED <<cls, link, readvars>>

\* the meter closes the connection of the synchronous client while an
\* exchange waits for its response; what it has sent still arrives
PeerCloses ==
    /\ cls \in SyncTCPClasses
    /\ task[1].pc = "recv"
    /\ ~conns[link.id].closed
    /\ conns' = [conns EXCEPT ![link.id].closed = TRUE]
    /\ UNCHANGED <<cls, link, task, readvars>>

\* the network hands the next bytes of a response to the socket
Deliver ==
    /\ \E c \in 1..Len(conns) : \E n \in 1..Len(conns[c].pending) :
         conns' = [conns EXCEPT
                      ![c].inbox = @ \o SubSeq(conns[c].pending, 1, n),
                      ![c].pending = SubSeq(@, n + 1, Len(@))]
    /\ UNCHANGED <<cls, link, task, readvars>>

\* a coroutine of the async client starts the request of one window: the
\* writer test, then either the await of _connect or the write
AsyncRequest(t) ==
    /\ cls \in AsyncClasses
    /\ task[t].pc = "idle"
    /\ TotalCalls < MaxCalls
    /\ \E w \in WireWindows(cls), tid \in WireTransactionIds :
         LET message == ModbusMessage(cls, tid, FirstReg(w), NumRegs(w))
             started == [pc |-> "connect", calls |-> task[t].calls + 1, regs |-> w,
                         tid |-> tid, msg |-> message, data |-> <<>>,
                         on |-> 0, out |-> Pending]
         IN  IF link.k = "none"
             THEN /\ task' = [task EXCEPT ![t] = started]
                  /\ UNCHANGED conns
             ELSE /\ conns' = [conns EXCEPT ![link.id] = Written(@, message)]
                  /\ task' = [task EXCEPT ![t] = [started EXCEPT !.pc = "drain"]]
    /\ UNCHANGED <<cls, link, readvars>>

\* asyncio.open_connection completes: _connect assigns reader and writer,
\* and the coroutine goes on to write its frame
Connect(t) ==
    /\ cls \in AsyncClasses
    /\ task[t].pc = "connect"
    /\ conns' = Append(conns, Written(NewConn, task[t].msg))
    /\ link' = [k |-> "conn", id |-> Len(conns) + 1]
    /\ task' = [task EXCEPT ![t].pc = "drain"]
    /\ UNCHANGED <<cls, readvars>>

\* the bytes readexactly(n) takes from the buffer of a reader
Taken(conn, message) == SubSeq(conn.inbox, 1, ExpectBytes(message))
Left(conn, message) ==
    [conn EXCEPT !.inbox = SubSeq(@, ExpectBytes(message) + 1, Len(@))]

\* writer.drain() completes and the coroutine calls reader.readexactly
Drained(t) ==
    /\ cls \in AsyncClasses
    /\ task[t].pc = "drain"
    /\ task' = [task EXCEPT ![t].pc = "read", ![t].on = link.id]
    /\ UNCHANGED <<cls, conns, link, readvars>>

\* readexactly returns once the buffer holds the bytes asked for
ReadExactly(t) ==
    /\ cls \in AsyncClasses
    /\ task[t].pc = "read"
    /\ Len(conns[task[t].on].inbox) >= ExpectBytes(task[t].msg)
    /\ LET data == Taken(conns[task[t].on], task[t].msg)
       IN  /\ conns' = [conns EXCEPT ![task[t].on] = Left(@, task[t].msg)]
           /\ task' = [task EXCEPT ![t].data = data, ![t].pc = "done",
                                   ![t].out = Payload9(data)]
    /\ UNCHANGED <<cls, link, readvars>>

\* two coroutines wait on one reader: StreamReader raises RuntimeError in
\* one of them
ReadConflict(t) ==
    /\ cls \in AsyncClasses
    /\ task[t].pc = "read"
    /\ Len(conns[task[t].on].inbox) < ExpectBytes(task[t].msg)
    /\ \E u \in Callers(cls) \ {t} :
           /\ task[u].pc = "read" /\ task[u].on = task[t].on
           /\ Len(conns[task[u].on].inbox) < ExpectBytes(task[u].msg)
    /\ task' = [task EXCEPT ![t].pc = "done", ![t].out = Raised("RuntimeError")]
    /\ UNCHANGED <<cls, conns, link, readvars>>

\* the caller goes on to its next request
Returned2Caller(t) ==
    /\ task[t].pc = "done"
    /\ task' = [task EXCEPT ![t] = IdleTask(task[t].calls)]
    /\ UNCHANGED <<cls, conns, link, readvars>>

NextWire ==
    \/ PerformRequest
    \/ Recv
    \/ PeerCloses
    \/ Deliver
    \/ \E t \in Callers(cls) : AsyncRequest(t)
    \/ \E t \in Callers(cls) : Connect(t)
    \/ \E t \in Callers(cls) : Drained(t)
    \/ \E t \in Callers(cls) : ReadExactly(t)
    \/ \E t \in Callers(cls) : ReadConflict(t)
    \/ \E t \in Callers(cls) : Returned2Caller(t)

SpecWire == InitWire /\ [][NextWire]_vars

-----------------------------------------------------------------------------
(* Direct calls of _modbus_message.                                        *)

\* the windows of every catalog, and every single register
FrameWindows(c) ==
    UNION {{SplitRanges(SortByStart(cat))[j] :
                j \in 1..Len(SplitRanges(SortByStart(cat)))} :
              cat \in {x \in Catalogs(c) : x # <<>>}}

FrameCalls(c) ==
    {[k |-> "frame", regs |-> w, tid |-> tid] :
        w \in FrameWindows(c), tid \in TransactionIds}

InitFrame ==
    /\ cls \in TCPClasses
    /\ REGS = <<>>
    /\ device = InitDevice(cls)
    /\ IdleCall
    /\ cin \in FrameCalls(cls)
    /\ cout = NoCodec
    /\ peer = <<>>
    /\ conns = InitConns(cls)
    /\ link = InitLink(cls)
    /\ task = <<>>

\* _modbus_message(first_reg, num_regs) for one window
BuildFrame ==
    /\ cout = NoCodec
    /\ cout' = [k |-> "frame",
                msg |-> ModbusMessage(cls, cin.tid, FirstReg(cin.regs),
                                      NumRegs(cin.regs))]
    /\ UNCHANGED <<cls, REGS, device, pc, regnames, registers, plan, sent,
                   results, outcome, diag, fault, cin, peer, conns, link, task>>

NextFrame == BuildFrame

SpecFrame == InitFrame /\ [][NextFrame]_vars

-----------------------------------------------------------------------------
(* C11 *)

\* C11 as claimed: when the bytes accumulated by the receive loop of the
\* synchronous client reach exactly 9 + 2 * registerCount at one of its
\* attempts 1..10, the exchange returns the bytes after the 9-byte header
\* and not the zero-filled list; the zero-filled list is returned only when
\* that length was not reached.
C11_ExactLengthReturnsPayload ==
    (/\ cls \in SyncTCPClasses /\ task[1].pc = "done"
     /\ task[1].out.kind \in {"payload", "degraded"}) =>
        /\ Len(task[1].data) = 9 + 2 * NumRegs(task[1].regs) =>
               /\ task[1].out.kind = "payload"
               /\ \A i \in 1..(2 * NumRegs(task[1].regs)) :
                      task[1].out.bytes[i] = task[1].data[i + 9]
        /\ task[1].out.kind = "degraded" =>
               Len(task[1].data) # 9 + 2 * NumRegs(task[1].regs)

\* the same statement for the attempts 1..9: it holds
C11_BeforeTheTenthAttempt ==
    (cls \in SyncTCPClasses /\ task[1].pc = "done"
       /\ task[1].out.kind = "degraded" /\ task[1].attempt = 10
       /\ Len(task[1].data) = 9 + 2 * NumRegs(task[1].regs))
    \/ C11_ExactLengthReturnsPayload

-----------------------------------------------------------------------------
(* C14 *)

\* C14 as claimed: an object constructed without a connection (SMAMeter,
\* AsyncModbusTCPMeter) that has got past the connection test of a request
\* has opened exactly one connection, holds it, and has sent on it; no
\* later request opens another.
C14_ConnectsOnceOnFirstRead ==
    (/\ cls \in {"SMAMeter"} \cup AsyncClasses
     /\ \E t \in DOMAIN task : task[t].pc \notin {"idle", "connect"}) =>
        /\ Len(conns) = 1
        /\ link = [k |-> "conn", id |-> 1]
        /\ conns[1].written >= 1

-----------------------------------------------------------------------------
(* C15 *)

\* the requests of a connection whose response is not yet consumed in full
InFlight(c) ==
    {(conns[c].inbox \o conns[c].pending)[i].of :
        i \in 1..Len(conns[c].inbox \o conns[c].pending)}

\* C15 as claimed: on the connection of a synchronous client there is never
\* more than one request whose response has not been received and consumed
\* in full, also after exchanges that ran out of attempts.
C15_SingleInFlight ==
    cls \in SyncTCPClasses =>
        \A c \in 1..Len(conns) : Cardinality(InFlight(c)) <= 1

-----------------------------------------------------------------------------
(* C16 *)

\* C16 as claimed: whatever the interleaving of the coroutines of two
\* callers of one async client, at most one connection is opened and no
\* request is written while the response to an earlier one is not read in
\* full.
C16_NoInterleaving ==
    cls \in AsyncClasses =>
        /\ Len(conns) <= 1
        /\ \A c \in 1..Len(conns) :
               /\ Cardinality(InFlight(c)) <= 1
               /\ Cardinality({t \in DOMAIN task :
                                  task[t].pc \in {"drain", "read"}}) <= 1

-----------------------------------------------------------------------------
(* C17 *)

\* the big-endian 16-bit field at bytes i, i + 1 of a frame
Field16(bs, i) == bs[i] * 256 + bs[i + 1]

\* C17: the frame of a window is 12 bytes: transaction id (1..65535),
\* protocol code 0, length 6, one byte device id, one byte function code 3,
\* start address = first address of the window minus REG_OFFSET (1 for
\* SMAMeter, 0 otherwise), register count of the window, every 16-bit field
\* big-endian; and expect_bytes is 9 + 2 * the count of that frame.
C17_RequestFrame ==
    cout.k = "frame" =>
        LET bs == cout.msg
        IN  /\ Len(bs) = 12
            /\ \A i \in 1..12 : bs[i] \in 0..255
            /\ Field16(bs, 1) = cin.tid /\ Field16(bs, 1) \in 1..65535
            /\ Field16(bs, 3) = 0
            /\ Field16(bs, 5) = 6
            /\ bs[7] = (IF cls = "MulticubeMeter" THEN 1 ELSE 126)
            /\ bs[8] = 3
            /\ Field16(bs, 9) = FirstReg(cin.regs)
                                   - (IF cls = "SMAMeter" THEN 1 ELSE 0)
            /\ Field16(bs, 11) = NumRegs(cin.regs)
            /\ ExpectBytes(bs) = 9 + 2 * NumRegs(cin.regs)

\* the frame of an SMAMeter window of several registers
C17_Witness ==
    /\ cout.k = "frame" /\ cls = "SMAMeter"
    /\ Len(cin.regs) >= 2 /\ cin.tid = 65535

-----------------------------------------------------------------------------
(* C18 *)

\* C18: when an exchange of the synchronous or the async client returns a
\* payload, the bytes read are 9 + 2 * registerCount, the payload is what
\* follows the first 9 of them, 2 * registerCount bytes, and the span
\* [2 * (start - first), 2 * (start - first) + 2 * length) of every register
\* of the window lies inside it.
C18_PayloadAfterHeader ==
    \A t \in DOMAIN task :
        (task[t].pc = "done" /\ task[t].out.kind = "payload") =>
            LET count == NumRegs(task[t].regs)
                first == FirstReg(task[t].regs)
                bytes == task[t].out.bytes
            IN  /\ Len(task[t].data) = 9 + 2 * count
                /\ Len(bytes) = 2 * count
                /\ \A i \in 1..Len(bytes) : bytes[i] = task[t].data[i + 9]
                /\ \A i \in 1..Len(task[t].regs) :
                       LET r == task[t].regs[i]
                       IN  /\ 0 <= 2 * (r.start - first)
                           /\ 2 * (r.start - first) + 2 * r.length <= Len(bytes)

\* a payload returned for a window of four registers, received in several
\* pieces by the synchronous client
C18_Witness ==
    \E t \in DOMAIN task :
        /\ task[t].pc = "done" /\ task[t].out.kind = "payload"
        /\ Len(task[t].regs) = 4
        /\ cls = "MulticubeMeter" /\ task[t].attempt >= 3

-----------------------------------------------------------------------------
(* C12 *)

\* the exchanges of the call whose attempts ran out
TimedOut == {j \in 1..Len(sent) : sent[j].via = "tcp" /\ ~sent[j].ok}

\* C12: when the attempts of a synchronous TCP exchange run out, the buffer
\* handed on is 2 * registerCount zeros, and the read() around it (name,
\* list or absent selector) ends without raising, with a value for every
\* register of that window.
C12_DegradedCompletes ==
    (cls \in SyncTCPClasses /\ pc = "done" /\ TimedOut # {}) =>
        /\ \A j \in TimedOut :
               /\ Len(sent[j].data) = 2 * sent[j].count
               /\ \A i \in 1..Len(sent[j].data) : sent[j].data[i] = 0
        /\ outcome.kind # "raise"
        /\ Batched =>
               /\ outcome = ReturnedDict
               /\ \A j \in TimedOut : \A i \in 1..Len(WindowsOfCall[j]) :
                      /\ WindowsOfCall[j][i].name \in DOMAIN results
                      /\ results[WindowsOfCall[j][i].name].t \in {"num", "None"}
        /\ regnames.k = "str" =>
               outcome.kind = "return" /\ outcome.val.t \in {"num", "None"}

\* a finished batched read of two windows, the second of which timed out
C12_Witness ==
    /\ cls = "MulticubeMeter" /\ pc = "done"
    /\ Batched /\ Len(sent) = 2 /\ TimedOut = {2} /\ outcome = ReturnedDict

-----------------------------------------------------------------------------
(* C13 *)

\* C13 as claimed: every register of a window whose attempts ran out is
\* reported as None or as zero, whatever its name.
C13_DegradedIsAbsentOrZero ==
    (cls \in SyncTCPClasses /\ Batched /\ outcome.kind # "raise") =>
        \A j \in TimedOut : \A i \in 1..Len(WindowsOfCall[j]) :
            LET n == WindowsOfCall[j][i].name
            IN  n \in DOMAIN results =>
                    (results[n] = NoneVal \/ IsZero(results[n]))

\* the same statement for every register but power_factor_total: it holds
C13_ExceptPowerFactor ==
    (cls \in SyncTCPClasses /\ Batched /\ outcome.kind # "raise") =>
        \A j \in TimedOut : \A i \in 1..Len(WindowsOfCall[j]) :
            LET n == WindowsOfCall[j][i].name
            IN  (n \in DOMAIN results /\ n # "power_factor_total") =>
                    (results[n] = NoneVal \/ IsZero(results[n]))

-----------------------------------------------------------------------------
(* C19 *)

\* C19: when the serial driver raises during the exchange of the k-th
\* window of a batched read, read() ends by raising that error: the dict of
\* the windows read before is not returned and no later window is
\* requested (the failed exchange is the last one of the call).
C19_DriverFaultPropagates ==
    (fault /\ Batched) =>
        /\ pc = "done"
        /\ outcome = Raised("IOError")
        /\ sent # <<>>
        /\ sent[Len(sent)].via = "fault"
        /\ \A j \in 1..(Len(sent) - 1) : sent[j].via # "fault"
        /\ Len(sent) = Len(WindowsOfCall) - Len(plan) + 1

\* the driver raised on the second window, after the first was decoded
C19_Witness ==
    /\ fault /\ Batched /\ cls \in RTUClasses
    /\ Len(sent) = 2 /\ results # <<>>

-----------------------------------------------------------------------------
(* C20 *)

\* C20 as claimed: nothing a read() on one object does changes the catalog
\* (contents or order) that a second object of the same class reads.
C20_InstancesIndependent == [][peer' = peer]_vars

-----------------------------------------------------------------------------
(* read() up to its plan, over catalogs of every length and order.         *)

\* every catalog made of the registers of the class, in every order
PlanCatalogs(c) ==
    {s \in UNION {[1..n -> BaseRegs(c)] : n \in 0..Cardinality(BaseRegs(c))} :
        \A i, j \in 1..Len(s) : i # j => s[i] # s[j]}

InitPlan ==
    /\ cls \in Classes
    /\ REGS \in PlanCatalogs(cls)
    /\ device = InitDevice(cls)
    /\ IdleCall
    /\ cin = NoCodec
    /\ cout = NoCodec
    /\ peer = REGS
    /\ conns = InitConns(cls)
    /\ link = InitLink(cls)
    /\ task = <<>>

NextPlan == Read

SpecPlan == InitPlan /\ [][NextPlan]_vars

-----------------------------------------------------------------------------
(* Single and list reads of one register on one state of the meter.        *)

AgreeCalls(c) ==
    {[k |-> "agree", register |-> r, img |-> img, answered |-> a] :
        r \in BaseRegs(c), img \in Images,
        a \in (IF c \in SyncTCPClasses THEN BOOLEAN ELSE {TRUE})}

\* the outcome of read(name) for a register of the catalog
ReadNameOutcome(c, img, answered, r) ==
    CASE c \in SyncTCPClasses ->
           IF InitDevice(c) = "unset" THEN Raised("AttributeError")
           ELSE TCPConvert(c, Response(c, img, answered, r.start, r.length),
                           r.signed, r.decimals, FALSE)
      [] c \in AsyncClasses ->
           TCPConvert(c, Payload(c, img, r.start, r.length),
                      r.signed, r.decimals, r.is_float)
      [] OTHER -> SerialSingle(c, img, r).out

\* the dict of read([name]), or the error it raised
ReadListOutcome(c, img, answered, r) ==
    CASE c \in SyncTCPClasses ->
           IF InitDevice(c) = "unset" THEN [err |-> "AttributeError", dict |-> <<>>]
           ELSE TCPInterpret(c, Response(c, img, answered, r.start, r.length), <<r>>)
      [] c \in AsyncClasses ->
           TCPInterpret(c, Payload(c, img, r.start, r.length), <<r>>)
      [] c = "SaiaMeter" ->
           SaiaInterpret(ReadRegisters(c, img, r.start, r.length), <<r>>)
      [] OTHER ->
           RTUInterpret(c, ReadRegisters(c, img, r.start, r.length), <<r>>)

InitAgree ==
    /\ cls \in Classes
    /\ REGS = <<>>
    /\ device = InitDevice(cls)
    /\ IdleCall
    /\ cin \in AgreeCalls(cls)
    /\ cout = NoCodec
    /\ peer = <<>>
    /\ conns = InitConns(cls)
    /\ link = InitLink(cls)
    /\ task = <<>>

\* read(name) and read([name]) on the same state of the meter
ReadBoth ==
    /\ cout = NoCodec
    /\ cout' = [k |-> "agree",
                single |-> ReadNameOutcome(cls, cin.img, cin.answered, cin.register),
                list |-> ReadListOutcome(cls, cin.img, cin.answered, cin.register)]
    /\ UNCHANGED <<cls, REGS, device, pc, regnames, registers, plan, sent,
                   results, outcome, diag, fault, cin, peer, conns, link, task>>

NextAgree == ReadBoth

SpecAgree == InitAgree /\ [][NextAgree]_vars

-----------------------------------------------------------------------------
(* C21 *)

\* C21 as claimed: every address of a window cut by _split_ranges from the
\* sorted registers lies in the span [start, start + length) of a register
\* of that window.
C21_NoUnusedAddress ==
    (cls \in TCPClasses /\ Planned) =>
        \A j \in 1..Len(plan) :
            \A a \in FirstReg(plan[j])..(FirstReg(plan[j]) + NumRegs(plan[j]) - 1) :
                \E i \in 1..Len(plan[j]) :
                    /\ plan[j][i].start <= a
                    /\ a < plan[j][i].start + plan[j][i].length

-----------------------------------------------------------------------------
(* C22 *)

\* the ways of cutting a list of n registers into consecutive runs: the
\* sets of places after which a run ends
Cuts(n) == SUBSET (1..(n - 1))

\* the runs of a cut all span at most cap addresses
CutFits(regs, cut, cap) ==
    \A i, j \in 1..Len(regs) :
        (i <= j /\ \A k \in i..(j - 1) : k \notin cut) =>
            \A m \in i..j : regs[m].start + regs[m].length - regs[i].start <= cap

\* C22: for a list sorted by start, _batch_read makes as few windows as any
\* cut of the list into consecutive runs that each span at most the cap.
C22_FewestWindows ==
    (cls \notin TCPClasses /\ Planned /\ IsSorted(registers)) =>
        /\ \E cut \in Cuts(Len(registers)) :
               CutFits(registers, cut, Cap(cls)) /\ Cardinality(cut) + 1 = Len(plan)
        /\ \A cut \in Cuts(Len(registers)) :
               CutFits(registers, cut, Cap(cls)) => Len(plan) <= Cardinality(cut) + 1

\* a sorted list of four registers that needs two windows and could be cut
\* into more
C22_Witness ==
    /\ cls \notin TCPClasses /\ Planned /\ IsSorted(registers)
    /\ Len(registers) = 4 /\ Len(plan) = 2

-----------------------------------------------------------------------------
(* C23 *)

\* C23 as claimed: whatever the selector of a batched read and whatever the
\* declaration order of the catalog, the planner is handed the registers in
\* ascending order of start.
C23_PlanIsSorted ==
    (Planned /\ Batched) => IsSorted(registers)

\* the same statement for list selectors and for the TCP classes: it holds
C23_ListOrTCP ==
    (regnames.k = "list" \/ cls \in TCPClasses) => C23_PlanIsSorted

-----------------------------------------------------------------------------
(* C25 *)

\* C25 as claimed: no step of a read() changes the catalog: the registers,
\* their order and their fields stay as declared.
C25_CatalogUnchanged == [][REGS' = REGS]_vars

-----------------------------------------------------------------------------
(* C26 *)

\* C26 as claimed: on every class, for every register of the catalog and
\* every state of the meter, read(name) ends as read([name])[name] does: the
\* same value (None included), or the same error.
C26_SingleAgreesWithList ==
    cout.k = "agree" =>
        IF cout.list.err # ""
        THEN cout.single = Raised(cout.list.err)
        ELSE cout.single = Returned(cout.list.dict[cin.register.name])

-----------------------------------------------------------------------------
(* C27 *)

\* the words of the all-ones and of the largest positive pattern of n words
AllOnesWords(n) == [i \in 1..n |-> 65535]
MaxPosWords(n) == [i \in 1..n |-> IF i = 1 THEN 32767 ELSE 65535]

\* C27 as claimed: _convert_value returns None for a non-float register
\* only when its words are the all-ones or the largest positive pattern of
\* the width of that register.
C27_SentinelOfOwnWidth ==
    (cout # NoCodec /\ cout = Returned(NoneVal)) =>
        cin.values \in {AllOnesWords(Len(cin.values)), MaxPosWords(Len(cin.values))}

-----------------------------------------------------------------------------
(* C28 *)

\* C28 as claimed: _convert_value returns None only for an integer of the
\* NULLS list of the class of the meter; with an empty list (MEM001) no
\* value decodes to None.
C28_OwnNullsApplied ==
    (cout # NoCodec /\ cout = Returned(NoneVal)) =>
        RawInteger(cin.values, cin.signed) \in NULLS(cls)

-----------------------------------------------------------------------------
(* C30 *)

\* C30 as claimed: the windows of one batched read are requested in
\* ascending order and do not overlap: each window ends at or before the
\* first address of the next, on both planners.
C30_WindowsAscending ==
    (Planned /\ Batched) =>
        \A j \in 1..(Len(plan) - 1) :
            FirstReg(plan[j]) + NumRegs(plan[j]) <= FirstReg(plan[j + 1])

\* the same statement for the lists handed over in ascending order: it holds
C30_WhenSorted == IsSorted(registers) => C30_WindowsAscending

-----------------------------------------------------------------------------
(* C24 *)

\* C24: an exchange of the synchronous client makes at most 10 calls of
\* recv, whatever each call returns (nothing, a part of the response, all
\* of it, more than it), and has ended once the tenth has returned; a read
\* of n windows so makes at most 10 * n.
C24_AtMostTenReceives ==
    (cls \in SyncTCPClasses /\ task[1].pc \in {"recv", "done"}) =>
        /\ task[1].recvs <= 10
        /\ task[1].recvs = 10 => task[1].pc = "done"
        /\ task[1].pc = "recv" => task[1].recvs < 10

\* an exchange that ended at its tenth recv, one of which returned nothing
\* because the meter had closed the connection
C24_Witness ==
    /\ cls \in SyncTCPClasses /\ task[1].pc = "done"
    /\ task[1].recvs = 10
    /\ conns[link.id].closed
    /\ Len(task[1].data) < ExpectBytes(task[1].msg)

-----------------------------------------------------------------------------
(* C29 *)

\* C29 as claimed: the payload an exchange of the synchronous client
\* returns is made only of bytes the meter sent in response to the request
\* of that exchange, also after an earlier exchange ran out of attempts.
C29_OwnResponseOnly ==
    (cls \in SyncTCPClasses /\ task[1].pc = "done"
       /\ task[1].out.kind = "payload") =>
        \A i \in 1..Len(task[1].out.bytes) :
            task[1].out.bytes[i].of = conns[link.id].written

====
